---- MODULE Spec2Model ----
(***************************************************************************)
(* Model of the image-to-print application: the App step machine (upload,  *)
(* crop, add to sheet, print), the PrintLayout component (layout           *)
(* calculator, quantity map, sheet packer, page navigation) and the        *)
(* export pipeline (renderPageToCanvas, generatePdf, handlePrint,          *)
(* handleExport).                                                          *)
(*                                                                         *)
(* Lengths.  The code computes pixel lengths in floating point,            *)
(*   mmToPx(mm) = (mm / 25.4) * DPI.                                       *)
(* The model keeps them exact: every length is an integer number of        *)
(* 1/PxDen pixel, with PxDen chosen so that whole millimetres, the 0.05    *)
(* steps of the scale slider and the aspect ratios of the modelled images  *)
(* are all whole numbers of units.  SpecCalc carries out the same          *)
(* computations on binary64 Numbers, bit for bit; the two differ only      *)
(* where a quotient is a whole number in exact arithmetic.                 *)
(*                                                                         *)
(* React effects.  A handler's state updates are committed, the component  *)
(* re-renders and its effects run before the next event is handled; each   *)
(* action below is the handler followed by the effects it triggers.        *)
(***************************************************************************)
EXTENDS Integers, Sequences, FiniteSets, TLC

VARIABLES
    \* ---- App (src/unnamed/part_000) ----
    step,             \* Step.UPLOAD | CROP | PRINT
    uploadedImage,    \* data URL shown in the cropper, or NoImage
    processedImages,  \* the working set handed to PrintLayout as `images`
    imageQueue,       \* uploaded images waiting for the cropper
    queueTotal,
    pendingAdds,      \* handleAddToSheet invocations awaiting saveProcessedImage
    sheetMode,        \* NoMode | [mode, size]
    selectedSizeName, \* ImageCropper: name chosen in the size selector
    customSize,       \* ImageCropper: size computed from the free-form crop
    completedCrop,    \* ImageCropper: a crop rectangle has been completed
    clock,            \* Date.now(), in milliseconds since the page was opened
    lastOp,           \* name of the last App handler that ran (history)
    \* ---- PrintLayout (src/components/PrintLayout.tsx) ----
    quantities,
    showCutMarks,
    paperType,
    customPaperSize,
    paperOrientation,
    margins,
    noGap,
    rotatePhotos,
    currentPage,
    randomImageScale, \* in twentieths: the slider's 0.05 steps
    pageEffect,       \* what the currentPage effect did last: none|snap|reset
    isExporting,
    \* ---- one print/export pipeline run ----
    exp,              \* the running handlePrint/handleExport call
    brokenIds,        \* ids of images whose data URL fails to decode
    \* ---- one evaluation of the layout computations ----
    calc              \* [in: the configuration, out: what is computed from it]

appVars == <<step, uploadedImage, processedImages, imageQueue, queueTotal, pendingAdds,
             sheetMode, selectedSizeName, customSize, completedCrop, clock>>
layoutVars == <<quantities, showCutMarks, paperType, customPaperSize,
                paperOrientation, margins, noGap, rotatePhotos, currentPage,
                randomImageScale, pageEffect>>
exportVars == <<isExporting, exp, brokenIds, calc>>
vars == <<appVars, lastOp, layoutVars, exportVars>>

(***************************************************************************)
(* Constants of the program                                                *)
(***************************************************************************)
DPI == 300
MARK_PADDING_PX == 2
GAP_MM == 2
BASE_TARGET_HEIGHT_MM == 45

A4_DIMENSIONS_MM == [width |-> 210, height |-> 297]
DefaultCustomPaper == [width |-> 100, height |-> 150]
DefaultMargins == [top |-> 10, right |-> 10, bottom |-> 10, left |-> 10]

PASSPORT_SIZES ==
    << [name |-> "India Passport (35x45 mm)", width_mm |-> 35, height_mm |-> 45],
       [name |-> "PAN Card (25x35 mm)", width_mm |-> 25, height_mm |-> 35],
       [name |-> "Stamp Size (20x25 mm)", width_mm |-> 20, height_mm |-> 25],
       [name |-> "Custom Size", width_mm |-> 0, height_mm |-> 0],
       [name |-> "Random Size", width_mm |-> -1, height_mm |-> -1] >>

RandomSize == PASSPORT_SIZES[5]

(***************************************************************************)
(* Units                                                                   *)
(***************************************************************************)
ScaleDen == 20                    \* the scale slider moves in steps of 1/20
\* Length units per pixel: 127 for 25.4 mm per inch, ScaleDen for the scale
\* factor, 2 for the natural heights of the modelled images (1 or 2).
PxDen == 127 * ScaleDen * 2

\* (mm / 25.4) * DPI pixels, in units: mm * DPI * PxDen * 10 / 254, exact.
mmToPx(mm) == mm * DPI * ((PxDen * 10) \div 254)

Min(a, b) == IF a < b THEN a ELSE b
Max(a, b) == IF a > b THEN a ELSE b

(***************************************************************************)
(* Number arithmetic: IEEE-754 binary64, round to nearest, ties to even    *)
(***************************************************************************)
\* Natural numbers of any size: sequences of limbs, least significant first,
\* without leading zero limbs; <<>> is 0.
LimbBits == 15
LimbBase == 2 ^ LimbBits
MantissaBits == 53

Limb(a, i) == IF i <= Len(a) THEN a[i] ELSE 0

RECURSIVE Trim(_)
Trim(a) == IF a # <<>> /\ a[Len(a)] = 0 THEN Trim(SubSeq(a, 1, Len(a) - 1)) ELSE a

RECURSIVE BigOf(_)
BigOf(k) == IF k = 0 THEN <<>> ELSE <<k % LimbBase>> \o BigOf(k \div LimbBase)

RECURSIVE IntOf(_)
IntOf(a) == IF a = <<>> THEN 0 ELSE a[1] + LimbBase * IntOf(Tail(a))

BigLess(a, b) ==
    \/ Len(a) < Len(b)
    \/ /\ Len(a) = Len(b)
       /\ \E i \in 1..Len(a) :
             /\ a[i] < b[i]
             /\ \A j \in (i + 1)..Len(a) : a[j] = b[j]

RECURSIVE BigAddFrom(_, _, _, _)
BigAddFrom(a, b, i, carry) ==
    IF i > Len(a) /\ i > Len(b)
    THEN IF carry = 0 THEN <<>> ELSE <<carry>>
    ELSE LET t == Limb(a, i) + Limb(b, i) + carry
         IN  <<t % LimbBase>> \o BigAddFrom(a, b, i + 1, t \div LimbBase)

BigAdd(a, b) == BigAddFrom(a, b, 1, 0)

\* a - b for a >= b
RECURSIVE BigSubFrom(_, _, _, _)
BigSubFrom(a, b, i, borrow) ==
    IF i > Len(a) THEN <<>>
    ELSE LET t == a[i] - Limb(b, i) - borrow
         IN  IF t < 0
             THEN <<t + LimbBase>> \o BigSubFrom(a, b, i + 1, 1)
             ELSE <<t>> \o BigSubFrom(a, b, i + 1, 0)

BigSub(a, b) == Trim(BigSubFrom(a, b, 1, 0))

BigDouble(a) == BigAdd(a, a)

BigHalve(a) ==
    Trim([i \in 1..Len(a) |->
            (a[i] \div 2) + (Limb(a, i + 1) % 2) * (LimbBase \div 2)])

BigOdd(a) == a # <<>> /\ a[1] % 2 = 1

\* a * k for a limb k
RECURSIVE BigMulLimbFrom(_, _, _, _)
BigMulLimbFrom(a, k, i, carry) ==
    IF i > Len(a)
    THEN IF carry = 0 THEN <<>> ELSE <<carry>>
    ELSE LET t == a[i] * k + carry
         IN  <<t % LimbBase>> \o BigMulLimbFrom(a, k, i + 1, t \div LimbBase)

RECURSIVE BigMulFrom(_, _, _)
BigMulFrom(a, b, j) ==
    IF j > Len(b) THEN <<>>
    ELSE BigAdd([i \in 1..(j - 1) |-> 0] \o BigMulLimbFrom(a, b[j], 1, 0),
                BigMulFrom(a, b, j + 1))

BigMul(a, b) == Trim(BigMulFrom(a, b, 1))

RECURSIVE BigPow2(_)
BigPow2(k) ==
    IF k = 0 THEN <<1>>
    ELSE IF k >= LimbBits THEN <<0>> \o BigPow2(k - LimbBits)
    ELSE BigDouble(BigPow2(k - 1))

\* A Number that is not negative: m * 2^e with 2^52 <= m < 2^53, or zero.
MantissaLow == BigPow2(MantissaBits - 1)
MantissaTop == BigPow2(MantissaBits)
FZero == [m |-> <<>>, e |-> 0]

\* n * 2^e for 0 < n < 2^53: exact
RECURSIVE FScaleUp(_, _)
FScaleUp(n, e) ==
    IF Len(n) + 1 < Len(MantissaLow) THEN FScaleUp(<<0>> \o n, e - LimbBits)
    ELSE IF BigLess(n, MantissaLow) THEN FScaleUp(BigDouble(n), e - 1)
    ELSE [m |-> n, e |-> e]

\* n * 2^e rounded; rb is the last bit dropped, st says that a lower part
\* was not zero
RECURSIVE FRoundDown(_, _, _, _)
FRoundDown(n, e, rb, st) ==
    IF ~BigLess(n, MantissaTop)
    THEN FRoundDown(BigHalve(n), e + 1, BigOdd(n), st \/ rb)
    ELSE IF rb /\ (st \/ BigOdd(n))
         THEN LET n1 == BigAdd(n, <<1>>)
              IN  IF n1 = MantissaTop THEN [m |-> MantissaLow, e |-> e + 1]
                  ELSE [m |-> n1, e |-> e]
         ELSE [m |-> n, e |-> e]

\* The Number nearest to (n + s) * 2^e, where 0 <= s < 1 and sticky says s > 0
\* (sticky only with n >= 2^53).
FRound(n, e, sticky) ==
    IF n = <<>> THEN FZero
    ELSE IF BigLess(n, MantissaLow) THEN FScaleUp(n, e)
    ELSE FRoundDown(n, e, FALSE, sticky)

FOfInt(k) == FRound(BigOf(k), 0, FALSE)

RECURSIVE BigShiftLeft(_, _)
BigShiftLeft(n, k) == IF k = 0 THEN n ELSE BigShiftLeft(BigDouble(n), k - 1)

\* x + y
FAdd(x, y) ==
    IF x.m = <<>> THEN y
    ELSE IF y.m = <<>> THEN x
    ELSE LET lo == IF x.e < y.e THEN x.e ELSE y.e
         IN  FRound(BigAdd(BigShiftLeft(x.m, x.e - lo), BigShiftLeft(y.m, y.e - lo)),
                    lo, FALSE)

\* x * y
FMul(x, y) ==
    IF x.m = <<>> \/ y.m = <<>> THEN FZero
    ELSE FRound(BigMul(x.m, y.m), x.e + y.e, FALSE)

\* Restoring division: k quotient bits of r / d, for r < 2d
RECURSIVE FDivSteps(_, _, _, _)
FDivSteps(r, d, q, k) ==
    IF k = 0 \/ Len(q) < 0 THEN [q |-> q, r |-> r]
    ELSE LET ge == ~BigLess(r, d)
             r1 == IF ge THEN BigSub(r, d) ELSE r
         IN  FDivSteps(BigDouble(r1), d,
                       BigAdd(BigDouble(q), IF ge THEN <<1>> ELSE <<>>), k - 1)

\* k more quotient bits after the steps that gave s
FDivChunk(s, d, k) == FDivSteps(s.r, d, s.q, k)

\* The quotient s.q with remainder s.r, in units of 2^e, as a Number
FRoundQuotient(s, e) == FRound(s.q, e, s.r # <<>>)

\* x / y for y > 0: MantissaBits + 2 quotient bits, then rounded
FDiv(x, y) ==
    IF x.m = <<>> THEN FZero
    ELSE FRoundQuotient(
             FDivChunk(FDivChunk(FDivChunk(FDivSteps(x.m, y.m, <<>>, LimbBits),
                                           y.m, LimbBits),
                                 y.m, LimbBits),
                       y.m, MantissaBits + 2 - 3 * LimbBits),
             x.e - y.e - (MantissaBits + 1))

RECURSIVE BigShiftRight(_, _)
BigShiftRight(n, k) ==
    IF k = 0 \/ n = <<>> THEN n
    ELSE IF k >= LimbBits THEN BigShiftRight(Tail(n), k - LimbBits)
    ELSE BigShiftRight(BigHalve(n), k - 1)

\* Math.floor(x) for 0 <= x < 2^30
FFloor(x) ==
    IF x.m = <<>> THEN 0
    ELSE IF x.e >= 0 THEN IntOf(BigShiftLeft(x.m, x.e))
    ELSE IntOf(BigShiftRight(x.m, 0 - x.e))

\* The literal 25.4
F25_4 == FDiv(FOfInt(254), FOfInt(10))

\* mmToPx = (mm) => (mm / 25.4) * DPI, on Numbers
mmToPx64(mm) == FMul(FDiv(mm, F25_4), FOfInt(DPI))

(***************************************************************************)
(* Layout Calculator: calculateLayoutInfo                                  *)
(***************************************************************************)
NoSize == [name |-> "null", width_mm |-> 0, height_mm |-> 0]

ZeroLayout == [portrait |-> 0, landscape |-> 0, max |-> 0, rotateForMax |-> FALSE]

\* gapMm = noGap ? 0 : 2
GapMm_Always(ng) == GAP_MM
GapMm(ng) == IF ng THEN 0 ELSE GAP_MM

\* markPaddingMm = showCutMarks && !noGap ? (MARK_PADDING_PX / DPI) * 25.4 : 0
\* and markPaddingPx = mmToPx(markPaddingMm): MARK_PADDING_PX pixels.
CalcMarkPaddingPx(scm, ng) == IF scm /\ ~ng THEN MARK_PADDING_PX * PxDen ELSE 0

\* total > 0 ? Math.floor((printable + gap) / (total + gap)) : 0
FitCount_CountsPartial(printablePx, totalPx, gapPx) ==
    IF totalPx > 0 THEN (printablePx + gapPx) \div (totalPx + gapPx) + 1 ELSE 0
FitCount(printablePx, totalPx, gapPx) ==
    IF totalPx > 0 THEN (printablePx + gapPx) \div (totalPx + gapPx) ELSE 0

\* if (printableWidthMm <= 0 || printableHeightMm <= 0) return the zero layout
NonPositiveArea_Never(printableWidthMm, printableHeightMm) == FALSE
NonPositiveArea(printableWidthMm, printableHeightMm) ==
    printableWidthMm <= 0 \/ printableHeightMm <= 0

\* calculateLayoutInfo in exact arithmetic (the Numbers of the code agree with
\* it except where a quotient is a whole number; see calculateLayoutInfo64).
calculateLayoutInfo(paperWidthMm, paperHeightMm, photoSize, m, scm, ng) ==
    IF photoSize = NoSize \/ photoSize.name = "Random Size" THEN ZeroLayout
    ELSE
    LET printableWidthMm == paperWidthMm - m.left - m.right
        printableHeightMm == paperHeightMm - m.top - m.bottom
    IN  IF NonPositiveArea(printableWidthMm, printableHeightMm) THEN ZeroLayout
        ELSE
        LET printableWidthPx == mmToPx(printableWidthMm)
            printableHeightPx == mmToPx(printableHeightMm)
            gapPx == mmToPx(GapMm(ng))
            markPaddingPx == CalcMarkPaddingPx(scm, ng)
            totalWidthPerImage_P == mmToPx(photoSize.width_mm) + markPaddingPx * 2
            totalHeightPerImage_P == mmToPx(photoSize.height_mm) + markPaddingPx * 2
            cols_P == FitCount(printableWidthPx, totalWidthPerImage_P, gapPx)
            rows_P == FitCount(printableHeightPx, totalHeightPerImage_P, gapPx)
            portraitMax == cols_P * rows_P
            totalWidthPerImage_L == mmToPx(photoSize.height_mm) + markPaddingPx * 2
            totalHeightPerImage_L == mmToPx(photoSize.width_mm) + markPaddingPx * 2
            cols_L == FitCount(printableWidthPx, totalWidthPerImage_L, gapPx)
            rows_L == FitCount(printableHeightPx, totalHeightPerImage_L, gapPx)
            landscapeMax == cols_L * rows_L
        IN  [portrait |-> portraitMax,
             landscape |-> landscapeMax,
             max |-> Max(portraitMax, landscapeMax),
             rotateForMax |-> landscapeMax > portraitMax]

(***************************************************************************)
(* The layout computations on Numbers                                      *)
(***************************************************************************)
\* total > 0 ? Math.floor((printable + gap) / (total + gap)) : 0
FitCount64(printablePx, totalPx, gapPx) ==
    IF totalPx.m # <<>>
    THEN FFloor(FDiv(FAdd(printablePx, gapPx), FAdd(totalPx, gapPx)))
    ELSE 0

\* markPaddingPx of calculateLayoutInfo:
\* mmToPx(showCutMarks && !noGap ? (MARK_PADDING_PX / DPI) * 25.4 : 0)
CalcMarkPaddingPx64(scm, ng) ==
    mmToPx64(IF scm /\ ~ng
             THEN FMul(FDiv(FOfInt(MARK_PADDING_PX), FOfInt(DPI)), F25_4)
             ELSE FZero)

\* markPaddingPx of paginatedLayout: mmToPx(showCutMarks && !noGap ? MARK_PADDING_PX : 0)
PackMarkPaddingPx64(scm, ng) ==
    mmToPx64(IF scm /\ ~ng THEN FOfInt(MARK_PADDING_PX) ELSE FZero)

\* The record calculateLayoutInfo returns for the two capacities
LayoutOfCounts(portraitMax, landscapeMax) ==
    [portrait |-> portraitMax,
     landscape |-> landscapeMax,
     max |-> Max(portraitMax, landscapeMax),
     rotateForMax |-> landscapeMax > portraitMax]

\* cols * rows of one orientation: the image is widthPx by heightPx
CapacityPx64(printableWidthPx, printableHeightPx, widthPx, heightPx, pad2, gapPx) ==
    FitCount64(printableWidthPx, FAdd(widthPx, pad2), gapPx)
    * FitCount64(printableHeightPx, FAdd(heightPx, pad2), gapPx)

\* calculateLayoutInfo from the pixel values on: portrait, then landscape
LayoutInfoPx64(printableWidthPx, printableHeightPx, wPx, hPx, pad2, gapPx) ==
    LayoutOfCounts(
        CapacityPx64(printableWidthPx, printableHeightPx, wPx, hPx, pad2, gapPx),
        CapacityPx64(printableWidthPx, printableHeightPx, hPx, wPx, pad2, gapPx))

\* calculateLayoutInfo as the code computes it (sizes and margins in whole mm)
calculateLayoutInfo64(paperWidthMm, paperHeightMm, photoSize, m, scm, ng) ==
    IF photoSize = NoSize \/ photoSize.name = "Random Size" THEN ZeroLayout
    ELSE IF NonPositiveArea(paperWidthMm - m.left - m.right,
                            paperHeightMm - m.top - m.bottom)
    THEN ZeroLayout
    ELSE LayoutInfoPx64(mmToPx64(FOfInt(paperWidthMm - m.left - m.right)),
                        mmToPx64(FOfInt(paperHeightMm - m.top - m.bottom)),
                        mmToPx64(FOfInt(photoSize.width_mm)),
                        mmToPx64(FOfInt(photoSize.height_mm)),
                        FMul(CalcMarkPaddingPx64(scm, ng), FOfInt(2)),
                        mmToPx64(FOfInt(GapMm(ng))))

\* cols, rows and itemsPerPage from the pixel values on
GridPx64(printableWidthPx, printableHeightPx, photoWidthPx, photoHeightPx, pad2, gapPx) ==
    [cols |-> FitCount64(printableWidthPx, FAdd(photoWidthPx, pad2), gapPx),
     rows |-> FitCount64(printableHeightPx, FAdd(photoHeightPx, pad2), gapPx),
     itemsPerPage |-> CapacityPx64(printableWidthPx, printableHeightPx,
                                   photoWidthPx, photoHeightPx, pad2, gapPx)]

\* cols, rows and itemsPerPage of the standard branch of paginatedLayout, as
\* the code computes them; zero where the branch is not reached.
StandardGrid64(paperWidthMm, paperHeightMm, photoSize, m, scm, ng, rp) ==
    IF paperWidthMm - m.left - m.right <= 0 \/ paperHeightMm - m.top - m.bottom <= 0
    THEN [cols |-> 0, rows |-> 0, itemsPerPage |-> 0]
    ELSE GridPx64(mmToPx64(FOfInt(paperWidthMm - m.left - m.right)),
                  mmToPx64(FOfInt(paperHeightMm - m.top - m.bottom)),
                  mmToPx64(FOfInt(IF rp THEN photoSize.height_mm ELSE photoSize.width_mm)),
                  mmToPx64(FOfInt(IF rp THEN photoSize.width_mm ELSE photoSize.height_mm)),
                  FMul(PackMarkPaddingPx64(scm, ng), FOfInt(2)),
                  mmToPx64(FOfInt(GapMm(ng))))

(***************************************************************************)
(* PrintLayout: values derived on every render                             *)
(***************************************************************************)
\* passportSize = images.length > 0 ? images[0].size : null
PassportSizeOf(imgs) == IF Len(imgs) > 0 THEN imgs[1].size ELSE NoSize

IsRandomSizeModeOf(imgs) == PassportSizeOf(imgs).name = "Random Size"

BasePaperDimensionsOf(pt, cps) == IF pt = "a4" THEN A4_DIMENSIONS_MM ELSE cps

PaperDimensionsOf(pt, cps, po) ==
    LET base == BasePaperDimensionsOf(pt, cps)
    IN  IF po = "landscape"
        THEN [width |-> base.height, height |-> base.width]
        ELSE base

LayoutInfoOf(imgs, pt, cps, po, m, scm, ng) ==
    LET pd == PaperDimensionsOf(pt, cps, po)
    IN  calculateLayoutInfo(pd.width, pd.height, PassportSizeOf(imgs), m, scm, ng)

MaxPhotosOf(imgs, pt, cps, po, m, scm, ng) ==
    LayoutInfoOf(imgs, pt, cps, po, m, scm, ng).max

RECURSIVE SumOver(_, _)
SumOver(q, keys) ==
    IF keys = {} THEN 0
    ELSE LET k == CHOOSE x \in keys : TRUE
         IN  q[k] + SumOver(q, keys \ {k})

\* totalCount = Object.values(quantities).reduce((sum, count) => sum + count, 0)
TotalCountOf(q) == SumOver(q, DOMAIN q)

Repeat(x, n) == [k \in 1..n |-> x]

\* imagesToPrint: the images themselves in random mode; otherwise the keys of
\* the quantity map in image order, each image repeated quantities[id] times.
\* (A key that matches several images resolves to the first of them, as
\* images.find does.)
RECURSIVE ExpandQuantities(_, _, _)
ExpandQuantities(imgs, q, i) ==
    IF i > Len(imgs) THEN <<>>
    ELSE LET first == \A j \in 1..(i - 1) : imgs[j].id # imgs[i].id
             n == IF first /\ imgs[i].id \in DOMAIN q THEN q[imgs[i].id] ELSE 0
         IN  Repeat(imgs[i], n) \o ExpandQuantities(imgs, q, i + 1)

ImagesToPrintOf(imgs, q) ==
    IF IsRandomSizeModeOf(imgs) THEN imgs ELSE ExpandQuantities(imgs, q, 1)

(***************************************************************************)
(* Sheet Packer: paginatedLayout                                           *)
(***************************************************************************)
Positioned(img, x, y, w, h) ==
    [id |-> img.id, size |-> img.size, rotation |-> img.rotation,
     width_px |-> img.width_px, height_px |-> img.height_px,
     x |-> x, y |-> y, renderWidth |-> w, renderHeight |-> h]

\* TARGET_HEIGHT_PX = Math.min(mmToPx(45), printableHeightPx) * randomImageScale
TargetHeightPx(printableHeightPx, scale) ==
    (Min(mmToPx(BASE_TARGET_HEIGHT_MM), printableHeightPx) * scale) \div ScaleDen

\* cursor.x > 0 && cursor.x + scaledWidth > printableWidthPx
WrapsRow_Never(cx, scaledWidth, printableWidthPx) == FALSE
WrapsRow(cx, scaledWidth, printableWidthPx) ==
    cx > 0 /\ cx + scaledWidth > printableWidthPx

\* cursor.x += scaledWidth + gapPx
AdvanceX_NoGap(cx, scaledWidth, gapPx) == cx + scaledWidth
AdvanceX(cx, scaledWidth, gapPx) == cx + scaledWidth + gapPx

\* One iteration of the random-mode loop: st is the loop state
\* [pages, cx, cy, rowHeight]; the item goes on the last page.
PackRandomStep(st, img, target, printableWidthPx, printableHeightPx, gapPx) ==
    LET w0 == (target * img.width_px) \div img.height_px
        h0 == target
        scaledWidth == IF img.rotation = 90 THEN h0 ELSE w0
        scaledHeight == IF img.rotation = 90 THEN w0 ELSE h0
        wrap == WrapsRow(st.cx, scaledWidth, printableWidthPx)
        s1 == IF wrap
              THEN [st EXCEPT !.cx = 0, !.cy = st.cy + st.rowHeight + gapPx,
                              !.rowHeight = 0]
              ELSE st
        newPage == s1.cy + scaledHeight > printableHeightPx
        s2 == IF newPage
              THEN [pages |-> Append(s1.pages, <<>>), cx |-> 0, cy |-> 0,
                    rowHeight |-> 0]
              ELSE s1
        n == Len(s2.pages)
    IN  [pages |-> [s2.pages EXCEPT ![n] =
                       Append(@, Positioned(img, s2.cx, s2.cy, scaledWidth, scaledHeight))],
         cx |-> AdvanceX(s2.cx, scaledWidth, gapPx),
         cy |-> s2.cy,
         rowHeight |-> Max(s2.rowHeight, scaledHeight)]

\* for (const img of imagesToPrint) { ... }: the loop from item i on
RECURSIVE PackRandom(_, _, _, _, _, _, _)
PackRandom_Reversed(st, toPrint, i, target, pw, ph, gapPx) ==
    IF i > Len(toPrint) THEN st
    ELSE PackRandom(PackRandomStep(st, toPrint[Len(toPrint) + 1 - i], target, pw, ph, gapPx),
                    toPrint, i + 1, target, pw, ph, gapPx)
PackRandom(st, toPrint, i, target, pw, ph, gapPx) ==
    IF i > Len(toPrint) THEN st
    ELSE PackRandom(PackRandomStep(st, toPrint[i], target, pw, ph, gapPx),
                    toPrint, i + 1, target, pw, ph, gapPx)

\* markPaddingPx = mmToPx(showCutMarks && !noGap ? MARK_PADDING_PX : 0)
PackMarkPaddingPx(scm, ng) == mmToPx(IF scm /\ ~ng THEN MARK_PADDING_PX ELSE 0)

\* The grid of the standard branch: cell footprint, cols, rows, itemsPerPage.
StandardGrid(size, pw, ph, gapPx, scm, ng, rp) ==
    LET markPaddingPx == PackMarkPaddingPx(scm, ng)
        photoW == IF rp THEN size.height_mm ELSE size.width_mm
        photoH == IF rp THEN size.width_mm ELSE size.height_mm
        totalWidth == mmToPx(photoW) + markPaddingPx * 2
        totalHeight == mmToPx(photoH) + markPaddingPx * 2
        cols == FitCount(pw, totalWidth, gapPx)
        rows == FitCount(ph, totalHeight, gapPx)
    IN  [totalWidth |-> totalWidth, totalHeight |-> totalHeight,
         cols |-> cols, rows |-> rows, itemsPerPage |-> cols * rows]

\* imagesToPrint.slice(0, itemsPerPage) placed row-major on the single page
PackStandard_Paginate(toPrint, g, gapPx) ==
    IF g.itemsPerPage > 0
    THEN [p \in 1..((Len(toPrint) + g.itemsPerPage - 1) \div g.itemsPerPage) |->
            [i \in 1..Min(g.itemsPerPage, Len(toPrint) - (p - 1) * g.itemsPerPage) |->
               Positioned(toPrint[(p - 1) * g.itemsPerPage + i],
                          ((i - 1) % g.cols) * (g.totalWidth + gapPx),
                          ((i - 1) \div g.cols) * (g.totalHeight + gapPx),
                          g.totalWidth, g.totalHeight)]]
    ELSE << <<>> >>
PackStandard(toPrint, g, gapPx) ==
    IF g.itemsPerPage > 0
    THEN LET n == Min(Len(toPrint), g.itemsPerPage)
         IN  << [i \in 1..n |->
                   LET itemOnPageIndex == (i - 1) % g.itemsPerPage
                       col == itemOnPageIndex % g.cols
                       row == itemOnPageIndex \div g.cols
                   IN  Positioned(toPrint[i],
                                  col * (g.totalWidth + gapPx),
                                  row * (g.totalHeight + gapPx),
                                  g.totalWidth, g.totalHeight)] >>
    ELSE << <<>> >>

\* pages.filter((p) => p.length > 0)
RECURSIVE FilterNonEmpty(_)
FilterNonEmpty(pages) ==
    IF pages = <<>> THEN <<>>
    ELSE (IF Len(Head(pages)) > 0 THEN <<Head(pages)>> ELSE <<>>)
         \o FilterNonEmpty(Tail(pages))

PaginatedLayoutOf(imgs, q, pt, cps, po, m, scm, ng, rp, scale) ==
    LET toPrint == ImagesToPrintOf(imgs, q)
        pd == PaperDimensionsOf(pt, cps, po)
        printableWidthPx == mmToPx(pd.width - m.left - m.right)
        printableHeightPx == mmToPx(pd.height - m.top - m.bottom)
        gapPx == mmToPx(GapMm(ng))
    IN  IF Len(toPrint) = 0 THEN <<>>
        ELSE IF printableWidthPx <= 0 \/ printableHeightPx <= 0 THEN <<>>
        ELSE IF IsRandomSizeModeOf(imgs)
        THEN FilterNonEmpty(
                 PackRandom([pages |-> << <<>> >>, cx |-> 0, cy |-> 0, rowHeight |-> 0],
                            toPrint, 1,
                            TargetHeightPx(printableHeightPx, scale),
                            printableWidthPx, printableHeightPx, gapPx).pages)
        ELSE FilterNonEmpty(
                 PackStandard(toPrint,
                              StandardGrid(PassportSizeOf(imgs), printableWidthPx,
                                           printableHeightPx, gapPx, scm, ng, rp),
                              gapPx))

(***************************************************************************)
(* Sheet renderer: the draw loop of renderSheetDirectlyToCanvas            *)
(***************************************************************************)
\* The rectangle of the page that the photo of one positioned instance
\* covers, in half units (every coordinate doubled, so that the halves the
\* code takes are whole).  With rotation 90 the code draws the rectangle
\* (-imgHeightPx / 2, -imgWidthPx / 2, imgHeightPx, imgWidthPx) in a frame
\* turned by 90 degrees about the centre of the destination rectangle: a
\* point (u, v) of that frame is the point (cx - v, cy + u) of the page.
DrawnRect(imgData, m, scm, ng) ==
    LET marginX == mmToPx(m.left)
        marginY == mmToPx(m.top)
        isRandom == imgData.size.name = "Random Size"
        markPaddingPx == mmToPx(IF scm /\ ~ng THEN MARK_PADDING_PX ELSE 0)
        imgContainerX == marginX + imgData.x
        imgContainerY == marginY + imgData.y
        imgWidthPx == IF isRandom THEN imgData.renderWidth - markPaddingPx * 2
                      ELSE mmToPx(imgData.size.width_mm)
        imgHeightPx == IF isRandom THEN imgData.renderHeight - markPaddingPx * 2
                       ELSE mmToPx(imgData.size.height_mm)
        destX2 == 2 * imgContainerX + (imgData.renderWidth - imgWidthPx)
        destY2 == 2 * imgContainerY + (imgData.renderHeight - imgHeightPx)
        cx2 == destX2 + imgWidthPx
        cy2 == destY2 + imgHeightPx
        u2 == 0 - imgHeightPx
        v2 == 0 - imgWidthPx
    IN  IF imgData.rotation = 90
        THEN [x |-> cx2 - (v2 + 2 * imgWidthPx), y |-> cy2 + u2,
              w |-> 2 * imgWidthPx, h |-> 2 * imgHeightPx]
        ELSE [x |-> destX2, y |-> destY2,
              w |-> 2 * imgWidthPx, h |-> 2 * imgHeightPx]

(***************************************************************************)
(* PrintLayout: the state as rendered                                      *)
(***************************************************************************)
images == processedImages         \* the `images` prop of PrintLayout

passportSize == PassportSizeOf(images)
isRandomSizeMode == IsRandomSizeModeOf(images)
paperDimensions == PaperDimensionsOf(paperType, customPaperSize, paperOrientation)
layoutInfo ==
    LayoutInfoOf(images, paperType, customPaperSize, paperOrientation, margins,
                 showCutMarks, noGap)
maxPhotos == layoutInfo.max
totalCount == TotalCountOf(quantities)
imagesToPrint == ImagesToPrintOf(images, quantities)
paginatedLayout ==
    PaginatedLayoutOf(images, quantities, paperType, customPaperSize,
                      paperOrientation, margins, showCutMarks, noGap,
                      rotatePhotos, randomImageScale)
pageCount == Len(paginatedLayout)

ImageIds(imgs) == { imgs[i].id : i \in 1..Len(imgs) }

(***************************************************************************)
(* PrintLayout: effects                                                    *)
(***************************************************************************)
\* baseCount + (remainder-- > 0 ? 1 : 0) for each image in order; a later
\* image with the same id overwrites the entry of an earlier one.
EvenQuantities(imgs, total) ==
    LET baseCount == total \div Len(imgs)
        remainder == total % Len(imgs)
        LastIndex(id) == CHOOSE i \in 1..Len(imgs) :
                            /\ imgs[i].id = id
                            /\ \A j \in (i + 1)..Len(imgs) : imgs[j].id # id
    IN  [id \in ImageIds(imgs) |->
            baseCount + (IF LastIndex(id) <= remainder THEN 1 ELSE 0)]

\* The quantities effect (deps: images, maxPhotos, isRandomSizeMode).
QuantitiesEffect(imgs, mp) ==
    IF Len(imgs) > 0 /\ mp > 0 THEN EvenQuantities(imgs, mp) ELSE <<>>

ClampCurrentPage_NoSnap(cp, n) == IF n = 0 /\ cp # 1 THEN 1 ELSE cp

\* The currentPage effect (deps: currentPage, paginatedLayout.length).
ClampCurrentPage(cp, n) ==
    IF cp > n /\ n > 0 THEN n
    ELSE IF n = 0 /\ cp # 1 THEN 1
    ELSE cp

\* paginatedLayout.length of the next render
PageCountNext ==
    Len(PaginatedLayoutOf(processedImages', quantities', paperType',
                          customPaperSize', paperOrientation', margins',
                          showCutMarks', noGap', rotatePhotos', randomImageScale'))

\* Commit of a handler's updates, followed by the effects of the re-render.
\* hq and hcp are the quantities and currentPage the handler itself set;
\* imagesChanged says that the handler installed a new images array.  The
\* primed configuration variables are set by the caller.
Commit(hq, hcp, imagesChanged) ==
    /\ quantities' =
          LET random2 == IsRandomSizeModeOf(processedImages')
              maxPhotos2 == MaxPhotosOf(processedImages', paperType', customPaperSize',
                                        paperOrientation', margins', showCutMarks',
                                        noGap')
          IN  IF random2 THEN hq
              ELSE IF imagesChanged \/ maxPhotos2 # maxPhotos
                      \/ random2 # isRandomSizeMode
                   THEN QuantitiesEffect(processedImages', maxPhotos2)
                   ELSE hq
    /\ currentPage' = ClampCurrentPage(hcp, PageCountNext)
    /\ pageEffect' = IF currentPage' = hcp THEN "none"
                     ELSE IF PageCountNext = 0 THEN "reset" ELSE "snap"

(***************************************************************************)
(* Bounds of the inputs                                                    *)
(***************************************************************************)
MaxQuantityInput == 2             \* slider values range over 0..MaxQuantityInput
MarginInputs == {10, 110}         \* values typed into a margin field (mm)
MarginSides == {"left", "right", "top"}   \* the margin fields that are edited
CustomPaperInputs == {60}         \* values typed into custom width/height (mm)

(***************************************************************************)
(* PrintLayout: handlers                                                   *)
(***************************************************************************)
appOther == <<step, uploadedImage, imageQueue, queueTotal, pendingAdds, sheetMode,
              selectedSizeName, customSize, completedCrop, clock, lastOp>>

\* PrintLayout is rendered at the Print step with a non-empty working set.
PrintLayoutShown == step = "PRINT" /\ Len(processedImages) > 0

\* newValue = Math.min(value, maxForThisImage)
NewQuantityValue_Unclamped(value, maxForThisImage) == value
NewQuantityValue(value, maxForThisImage) == Min(value, maxForThisImage)

\* The quantity slider of one image (standard mode, enabled while maxPhotos # 0).
handleQuantityChange(id, value) ==
    /\ PrintLayoutShown /\ ~isRandomSizeMode /\ maxPhotos # 0
    /\ LET currentTotalWithoutThisImage ==
               SumOver(quantities, DOMAIN quantities \ {id})
           maxForThisImage == maxPhotos - currentTotalWithoutThisImage
           newValue == NewQuantityValue(value, maxForThisImage)
       IN  /\ newValue >= 0
           /\ UNCHANGED <<processedImages, showCutMarks, paperType, customPaperSize,
                          paperOrientation, margins, noGap, rotatePhotos,
                          randomImageScale>>
           /\ Commit([k \in DOMAIN quantities \cup {id} |->
                          IF k = id THEN newValue ELSE quantities[k]],
                     currentPage, FALSE)
    /\ UNCHANGED <<appOther, exportVars>>

handleMarginChange(side, numValue) ==
    /\ PrintLayoutShown
    /\ numValue >= 0
    /\ margins' = [margins EXCEPT ![side] = numValue]
    /\ UNCHANGED <<processedImages, showCutMarks, paperType, customPaperSize,
                   paperOrientation, noGap, rotatePhotos, randomImageScale>>
    /\ Commit(quantities, currentPage, FALSE)
    /\ UNCHANGED <<appOther, exportVars>>

\* The rotate button of one image (rendered in the standard-mode quantity list).
handleRotateImage(id) ==
    /\ PrintLayoutShown /\ ~isRandomSizeMode
    /\ processedImages' =
          [i \in 1..Len(processedImages) |->
              IF processedImages[i].id = id
              THEN [processedImages[i] EXCEPT
                       !.rotation = IF @ = 90 THEN 0 ELSE 90]
              ELSE processedImages[i]]
    /\ UNCHANGED <<showCutMarks, paperType, customPaperSize, paperOrientation,
                   margins, noGap, rotatePhotos, randomImageScale>>
    /\ Commit(quantities, currentPage, TRUE)
    /\ UNCHANGED <<appOther, exportVars>>

\* handleFillPage that never turns the paper.
FillPageChoice_KeepsPortrait(imgs, pt, cps, m, scm, ng) ==
    LET baseDims == BasePaperDimensionsOf(pt, cps)
        pResult == calculateLayoutInfo(baseDims.width, baseDims.height,
                                       PassportSizeOf(imgs), m, scm, ng)
    IN  [paperOrientation |-> "portrait",
         rotatePhotos |-> pResult.rotateForMax,
         maxForFill |-> pResult.max,
         quantities |-> IF pResult.max <= 0
                        THEN [id \in ImageIds(imgs) |-> 0]
                        ELSE EvenQuantities(imgs, pResult.max)]

\* What Optimize & Fill Page chooses: orientation, rotation, quantities.
FillPageChoice(imgs, pt, cps, m, scm, ng) ==
    LET baseDims == BasePaperDimensionsOf(pt, cps)
        pResult == calculateLayoutInfo(baseDims.width, baseDims.height,
                                       PassportSizeOf(imgs), m, scm, ng)
        lResult == calculateLayoutInfo(baseDims.height, baseDims.width,
                                       PassportSizeOf(imgs), m, scm, ng)
        useL == lResult.max > pResult.max
        maxForFill == IF useL THEN lResult.max ELSE pResult.max
    IN  [paperOrientation |-> IF useL THEN "landscape" ELSE "portrait",
         rotatePhotos |-> IF useL THEN lResult.rotateForMax ELSE pResult.rotateForMax,
         maxForFill |-> maxForFill,
         quantities |-> IF maxForFill <= 0
                        THEN [id \in ImageIds(imgs) |-> 0]
                        ELSE EvenQuantities(imgs, maxForFill)]

handleFillPage ==
    /\ PrintLayoutShown /\ ~isRandomSizeMode
    /\ LET c == FillPageChoice(images, paperType, customPaperSize, margins,
                               showCutMarks, noGap)
       IN  /\ paperOrientation' = c.paperOrientation
           /\ rotatePhotos' = c.rotatePhotos
           /\ UNCHANGED <<processedImages, showCutMarks, paperType,
                          customPaperSize, margins, noGap, randomImageScale>>
           /\ Commit(c.quantities, currentPage, FALSE)
    /\ UNCHANGED <<appOther, exportVars>>

\* The cut-marks switch (rendered in standard mode).
ToggleShowCutMarks ==
    /\ PrintLayoutShown /\ ~isRandomSizeMode
    /\ showCutMarks' = ~showCutMarks
    /\ UNCHANGED <<processedImages, paperType, customPaperSize, paperOrientation,
                   margins, noGap, rotatePhotos, randomImageScale>>
    /\ Commit(quantities, currentPage, FALSE)
    /\ UNCHANGED <<appOther, exportVars>>

ToggleNoGap ==
    /\ PrintLayoutShown
    /\ noGap' = ~noGap
    /\ UNCHANGED <<processedImages, showCutMarks, paperType, customPaperSize,
                   paperOrientation, margins, rotatePhotos, randomImageScale>>
    /\ Commit(quantities, currentPage, FALSE)
    /\ UNCHANGED <<appOther, exportVars>>

SetPaperType(t) ==
    /\ PrintLayoutShown
    /\ paperType' = t
    /\ UNCHANGED <<processedImages, showCutMarks, customPaperSize, paperOrientation,
                   margins, noGap, rotatePhotos, randomImageScale>>
    /\ Commit(quantities, currentPage, FALSE)
    /\ UNCHANGED <<appOther, exportVars>>

\* The custom width/height fields (rendered while paperType = "custom").
SetCustomPaperSize(dim, v) ==
    /\ PrintLayoutShown /\ paperType = "custom"
    /\ customPaperSize' = [customPaperSize EXCEPT ![dim] = v]
    /\ UNCHANGED <<processedImages, showCutMarks, paperType, paperOrientation,
                   margins, noGap, rotatePhotos, randomImageScale>>
    /\ Commit(quantities, currentPage, FALSE)
    /\ UNCHANGED <<appOther, exportVars>>

SetPaperOrientation(o) ==
    /\ PrintLayoutShown
    /\ paperOrientation' = o
    /\ UNCHANGED <<processedImages, showCutMarks, paperType, customPaperSize,
                   margins, noGap, rotatePhotos, randomImageScale>>
    /\ Commit(quantities, currentPage, FALSE)
    /\ UNCHANGED <<appOther, exportVars>>

\* The scale slider (rendered in random mode), k twentieths.
SetRandomImageScale(k) ==
    /\ PrintLayoutShown /\ isRandomSizeMode
    /\ randomImageScale' = k
    /\ UNCHANGED <<processedImages, showCutMarks, paperType, customPaperSize,
                   paperOrientation, margins, noGap, rotatePhotos>>
    /\ Commit(quantities, currentPage, FALSE)
    /\ UNCHANGED <<appOther, exportVars>>

\* Prev / Next (rendered in random mode while there is more than one page;
\* each is disabled at its end of the range).
PrevPage ==
    /\ PrintLayoutShown /\ isRandomSizeMode /\ pageCount > 1
    /\ currentPage # 1
    /\ UNCHANGED <<processedImages, showCutMarks, paperType, customPaperSize,
                   paperOrientation, margins, noGap, rotatePhotos,
                   randomImageScale>>
    /\ Commit(quantities, Max(1, currentPage - 1), FALSE)
    /\ UNCHANGED <<appOther, exportVars>>

NextPage ==
    /\ PrintLayoutShown /\ isRandomSizeMode /\ pageCount > 1
    /\ currentPage # pageCount
    /\ UNCHANGED <<processedImages, showCutMarks, paperType, customPaperSize,
                   paperOrientation, margins, noGap, rotatePhotos,
                   randomImageScale>>
    /\ Commit(quantities, Min(pageCount, currentPage + 1), FALSE)
    /\ UNCHANGED <<appOther, exportVars>>

(***************************************************************************)
(* Initial states                                                          *)
(***************************************************************************)
NoImage == 0
NoMode == [mode |-> "null"]
\* No layout computation is being looked at.
NoCalc == [done |-> FALSE, in |-> [none |-> TRUE], out |-> [none |-> TRUE]]
NoError == [msg |-> "none"]
NoOutput == [how |-> "none"]
NoCall == [direct |-> "none", fallback |-> "none", error |-> NoError]
\* No print/export has run yet.
NoExport ==
    [pc |-> "idle", kind |-> "none", pages |-> <<>>, pageNo |-> 0, i |-> 0,
     doc |-> <<>>, log |-> <<>>, call |-> NoCall, loadFailed |-> FALSE,
     error |-> NoError, alert |-> "none", output |-> NoOutput,
     rerendered |-> FALSE, overlap |-> 0]

\* newImage of handleAddToSheet; width_px/height_px are 0 when undefined.
NewImage(id, size, w, h) ==
    [id |-> id, size |-> size, rotation |-> 0, width_px |-> w, height_px |-> h]

\* quantities after the effects of PrintLayout's first render over imgs.
MountedQuantities(imgs) ==
    IF IsRandomSizeModeOf(imgs) THEN <<>>
    ELSE QuantitiesEffect(imgs, MaxPhotosOf(imgs, "a4", DefaultCustomPaper,
                                            "portrait", DefaultMargins, FALSE, FALSE))

\* useState defaults of PrintLayout, after the effects of the first render.
PrintLayoutMounted ==
    /\ showCutMarks = FALSE
    /\ paperType = "a4"
    /\ customPaperSize = DefaultCustomPaper
    /\ paperOrientation = "portrait"
    /\ margins = DefaultMargins
    /\ noGap = FALSE
    /\ rotatePhotos = FALSE
    /\ randomImageScale = ScaleDen
    /\ isExporting = FALSE
    /\ quantities = MountedQuantities(processedImages)
    /\ currentPage = 1
    /\ pageEffect = "none"

\* The App state on arrival at the Print step with working set imgs.
AtPrintStep(imgs, mode) ==
    /\ step = "PRINT"
    /\ uploadedImage = NoImage
    /\ processedImages = imgs
    /\ imageQueue = <<>>
    /\ queueTotal = 0
    /\ pendingAdds = <<>>
    /\ sheetMode = mode
    /\ selectedSizeName = PASSPORT_SIZES[1].name
    /\ customSize = [width_mm |-> 0, height_mm |-> 0]
    /\ completedCrop = FALSE
    /\ clock = 0
    /\ lastOp = "handleAddToSheet"

\* Standard mode: one or two images cropped to the first fixed size.
StandardWorkingSets ==
    { [i \in 1..n |-> NewImage(i, PASSPORT_SIZES[1], 0, 0)] : n \in {1, 2} }

LayoutInit ==
    /\ \E imgs \in StandardWorkingSets :
          AtPrintStep(imgs, [mode |-> "standard", size |-> imgs[1].size])
    /\ PrintLayoutMounted
    /\ exp = NoExport
    /\ brokenIds = {}
    /\ calc = NoCalc

LayoutNext ==
    \/ \E id \in ImageIds(images), v \in 0..MaxQuantityInput :
          handleQuantityChange(id, v)
    \/ \E side \in MarginSides, v \in MarginInputs : handleMarginChange(side, v)
    \/ \E id \in ImageIds(images) : handleRotateImage(id)
    \/ handleFillPage
    \/ ToggleShowCutMarks
    \/ ToggleNoGap
    \/ \E t \in {"a4", "custom"} : SetPaperType(t)
    \/ \E d \in {"width", "height"}, v \in CustomPaperInputs :
          SetCustomPaperSize(d, v)
    \/ \E o \in {"portrait", "landscape"} : SetPaperOrientation(o)

SpecLayout == LayoutInit /\ [][LayoutNext]_vars

MaxRandomImages == 3              \* images in a random-mode working set
MaxOverlap == 1                   \* further pipelines started beside the running one
NaturalDims == { <<2, 1>>, <<1, 2>> }      \* natural width x height, in proportion
ScaleInputs == {2, 20, 40}        \* slider positions 0.1, 1.0, 2.0 (twentieths)

\* Random mode: every image carries the Random Size sentinel and its natural
\* pixel dimensions; rotation is 0 (PrintLayout offers no rotate button here).
RandomWorkingSets ==
    UNION { { [i \in 1..n |-> NewImage(i, RandomSize, d[i][1], d[i][2])] :
                d \in [1..n -> NaturalDims] } : n \in 1..MaxRandomImages }

RandomInit ==
    /\ \E imgs \in RandomWorkingSets : AtPrintStep(imgs, [mode |-> "random"])
    /\ PrintLayoutMounted
    /\ exp = NoExport
    /\ brokenIds = {}
    /\ calc = NoCalc

RandomNext ==
    \/ \E side \in MarginSides, v \in MarginInputs : handleMarginChange(side, v)
    \/ ToggleNoGap
    \/ \E t \in {"a4", "custom"} : SetPaperType(t)
    \/ \E d \in {"width", "height"}, v \in CustomPaperInputs :
          SetCustomPaperSize(d, v)
    \/ \E o \in {"portrait", "landscape"} : SetPaperOrientation(o)
    \/ \E k \in ScaleInputs : SetRandomImageScale(k)
    \/ PrevPage
    \/ NextPage

SpecRandom == RandomInit /\ [][RandomNext]_vars

(***************************************************************************)
(* The layout computations, applied to one configuration                   *)
(***************************************************************************)
CalcPapers ==
    { A4_DIMENSIONS_MM,
      [width |-> A4_DIMENSIONS_MM.height, height |-> A4_DIMENSIONS_MM.width],
      DefaultCustomPaper }
CalcMargins ==
    { DefaultMargins,
      [DefaultMargins EXCEPT !.right = 13],
      [DefaultMargins EXCEPT !.left = 110, !.right = 110] }
CalcSizes == { PASSPORT_SIZES[i] : i \in 1..3 }

\* A configuration of PrintLayout showing images of one fixed size.
CalcInputs ==
    [paper : CalcPapers, margins : CalcMargins, size : CalcSizes,
     showCutMarks : BOOLEAN, noGap : BOOLEAN, rotatePhotos : BOOLEAN]

\* What one render computes from configuration c.
CalcOutput(c) ==
    [info |-> calculateLayoutInfo64(c.paper.width, c.paper.height, c.size,
                                    c.margins, c.showCutMarks, c.noGap),
     grid |-> StandardGrid64(c.paper.width, c.paper.height, c.size, c.margins,
                             c.showCutMarks, c.noGap, c.rotatePhotos),
     gapPx |-> mmToPx64(FOfInt(GapMm(c.noGap))),
     calcPadPx |-> CalcMarkPaddingPx64(c.showCutMarks, c.noGap),
     packPadPx |-> PackMarkPaddingPx64(c.showCutMarks, c.noGap),
     widthPx |-> mmToPx64(FOfInt(c.size.width_mm))]

Calculate ==
    /\ ~calc.done
    /\ calc' = [calc EXCEPT !.done = TRUE, !.out = CalcOutput(calc.in)]
    /\ UNCHANGED <<appVars, lastOp, layoutVars, isExporting, exp, brokenIds>>

CalcInit ==
    /\ \E c \in CalcInputs :
          /\ calc = [NoCalc EXCEPT !.in = c]
          /\ AtPrintStep(<<NewImage(1, c.size, 0, 0)>>,
                         [mode |-> "standard", size |-> c.size])
    /\ PrintLayoutMounted
    /\ exp = NoExport
    /\ brokenIds = {}

CalcNext == Calculate

SpecCalc == CalcInit /\ [][CalcNext]_vars

(***************************************************************************)
(* App: effects                                                            *)
(***************************************************************************)
\* The App state the effects read and write, as a record.
AppState ==
    [step |-> step, uploadedImage |-> uploadedImage,
     processedImages |-> processedImages, imageQueue |-> imageQueue,
     queueTotal |-> queueTotal, sheetMode |-> sheetMode]

ClearedApp ==
    [step |-> "UPLOAD", uploadedImage |-> NoImage, processedImages |-> <<>>,
     imageQueue |-> <<>>, queueTotal |-> 0, sheetMode |-> NoMode]

\* The step-validity effect: Crop without an image to crop, or Print without
\* images to print, clears the App state and goes to Upload.
StepValidityEffect(a) ==
    IF \/ a.step = "CROP" /\ a.uploadedImage = NoImage
       \/ a.step = "PRINT" /\ Len(a.processedImages) = 0
    THEN ClearedApp
    ELSE a

\* The auto-advance effect: changeStep(Step.PRINT), decided on the rendered state.
AutoAdvances(a) ==
    Len(a.imageQueue) = 0 /\ a.step = "CROP" /\ a.uploadedImage = NoImage

\* One render's effects: both read the rendered state a; their updates are
\* batched in declaration order, so the later setStep wins.
AppEffectsPass(a) ==
    LET v == StepValidityEffect(a)
    IN  IF AutoAdvances(a) THEN [v EXCEPT !.step = "PRINT"] ELSE v

\* Effects until the state is stable (two renders suffice).
AppEffects(a) == AppEffectsPass(AppEffectsPass(AppEffectsPass(a)))

\* selectedSizeName of a freshly mounted ImageCropper: the first size, then
\* the sheetMode effect selects the locked size.
MountedSizeName(mode) ==
    IF mode.mode = "standard" THEN mode.size.name
    ELSE IF mode.mode = "random" THEN "Random Size"
    ELSE PASSPORT_SIZES[1].name

\* PrintLayout is rendered at the Print step only: entering the step mounts
\* it with fresh state over imgs, leaving the step discards its state.
MountPrintLayout(imgs) ==
    /\ showCutMarks' = FALSE
    /\ paperType' = "a4"
    /\ customPaperSize' = DefaultCustomPaper
    /\ paperOrientation' = "portrait"
    /\ margins' = DefaultMargins
    /\ noGap' = FALSE
    /\ rotatePhotos' = FALSE
    /\ randomImageScale' = ScaleDen
    /\ quantities' = MountedQuantities(imgs)
    /\ currentPage' = 1
    /\ pageEffect' = "none"

\* Commit of an App handler's updates a, followed by the effects; the cropper
\* is mounted afresh when the Crop step shows another image than before.
CommitApp(a, op) ==
    LET b == AppEffects(a)
        remount == b.step = "CROP" /\ (step # "CROP" \/ b.uploadedImage # uploadedImage)
    IN  /\ step' = b.step
        /\ uploadedImage' = b.uploadedImage
        /\ processedImages' = b.processedImages
        /\ imageQueue' = b.imageQueue
        /\ queueTotal' = b.queueTotal
        /\ sheetMode' = b.sheetMode
        /\ selectedSizeName' =
              IF remount THEN MountedSizeName(b.sheetMode) ELSE selectedSizeName
        /\ customSize' =
              IF remount THEN [width_mm |-> 0, height_mm |-> 0] ELSE customSize
        /\ completedCrop' = IF remount THEN FALSE ELSE completedCrop
        /\ lastOp' = op
        /\ IF b.step = step
           THEN UNCHANGED layoutVars
           ELSE MountPrintLayout(IF b.step = "PRINT" THEN b.processedImages ELSE <<>>)

(***************************************************************************)
(* App and ImageCropper: handlers                                          *)
(***************************************************************************)
MaxBatch == 2                     \* images selected in one upload
MaxWorkingSet == 3                \* images added to the sheet in one run
MaxPending == 2                   \* handleAddToSheet invocations suspended at once
MaxClock == 2                     \* milliseconds the clock advances in one run
CropSizesMm == { <<30, 40>>, <<50, 50>> }   \* free-form crops, in mm at sourceDpi

SizeNames == { PASSPORT_SIZES[i].name : i \in 1..Len(PASSPORT_SIZES) }

isSizeLocked == sheetMode # NoMode
isCustomSize == selectedSizeName = "Custom Size"
isRandomSize == selectedSizeName = "Random Size"

\* selectedSize of the cropper
selectedSize ==
    IF selectedSizeName = "Custom Size"
    THEN [name |-> "Custom Size", width_mm |-> customSize.width_mm,
          height_mm |-> customSize.height_mm]
    ELSE IF selectedSizeName = "Random Size" THEN RandomSize
    ELSE CHOOSE sz \in { PASSPORT_SIZES[i] : i \in 1..Len(PASSPORT_SIZES) } :
            sz.name = selectedSizeName

CropperShown == step = "CROP" /\ uploadedImage # NoImage

\* ImageUploader hands over n resized images (data URLs 1..n).
handleImagesSelected(n) ==
    /\ step = "UPLOAD"
    /\ n >= 1
    /\ CommitApp([AppState EXCEPT !.imageQueue = [k \in 1..(n - 1) |-> k + 1],
                                  !.queueTotal = queueTotal + n,
                                  !.uploadedImage = 1,
                                  !.step = "CROP"],
                 "handleImagesSelected")
    /\ UNCHANGED <<clock, pendingAdds, exportVars>>

\* The size selector of the cropper (disabled while the size is locked).
handleSizeChange(name) ==
    /\ CropperShown /\ ~isSizeLocked
    /\ selectedSizeName' = name
    /\ IF name = "Custom Size"
       THEN /\ completedCrop' = FALSE
            /\ customSize' = [width_mm |-> 0, height_mm |-> 0]
       ELSE UNCHANGED <<completedCrop, customSize>>
    /\ lastOp' = "handleSizeChange"
    /\ UNCHANGED <<step, uploadedImage, processedImages, imageQueue, queueTotal, pendingAdds,
                   sheetMode, clock, layoutVars, exportVars>>

\* The user completes a crop rectangle; with Custom Size the effect computes
\* the physical size of the crop (d, in mm) from the rectangle.
CompleteCrop(d) ==
    /\ CropperShown /\ ~isRandomSize
    /\ completedCrop' = TRUE
    /\ customSize' = IF isCustomSize
                     THEN [width_mm |-> d[1], height_mm |-> d[2]]
                     ELSE customSize
    /\ lastOp' = "CompleteCrop"
    /\ UNCHANGED <<step, uploadedImage, processedImages, imageQueue, queueTotal, pendingAdds,
                   sheetMode, selectedSizeName, clock, layoutVars, exportVars>>

\* The sheet mode that the first image of a working set decides.
SheetModeOf(image) ==
    IF image.size.name = "Random Size"
    THEN [mode |-> "random"]
    ELSE [mode |-> "standard", size |-> image.size]

\* The updates of handleAddToSheet on App state a.
AddToSheet_AlwaysSetsMode(a, newImage, finalAction) ==
    LET a1 == [a EXCEPT
                 !.processedImages = Append(a.processedImages, newImage),
                 !.sheetMode = SheetModeOf(newImage)]
    IN  IF Len(a.imageQueue) > 0
        THEN [a1 EXCEPT !.imageQueue = Tail(a.imageQueue),
                        !.uploadedImage = a.imageQueue[1],
                        !.step = "CROP"]
        ELSE [a1 EXCEPT !.step = IF finalAction = "print" THEN "PRINT" ELSE "UPLOAD",
                        !.uploadedImage = NoImage,
                        !.queueTotal = 0]
AddToSheet(a, newImage, finalAction) ==
    LET a1 == [a EXCEPT
                 !.processedImages = Append(a.processedImages, newImage),
                 !.sheetMode =
                     IF Len(a.processedImages) = 0
                     THEN IF newImage.size.name = "Random Size"
                          THEN [mode |-> "random"]
                          ELSE [mode |-> "standard", size |-> newImage.size]
                     ELSE a.sheetMode]
    IN  IF Len(a.imageQueue) > 0
        THEN [a1 EXCEPT !.imageQueue = Tail(a.imageQueue),
                        !.uploadedImage = a.imageQueue[1],
                        !.step = "CROP"]
        ELSE [a1 EXCEPT !.step = IF finalAction = "print" THEN "PRINT" ELSE "UPLOAD",
                        !.uploadedImage = NoImage,
                        !.queueTotal = 0]

\* Add to Print Sheet / Add & Upload More: handleProcessClick, then
\* handleAddToSheet through onProcess, with isStorageReady false: the handler
\* runs to its end.  d: natural dimensions of the image.
handleProcessClick(finalAction, d) ==
    /\ CropperShown
    /\ isRandomSize \/ completedCrop
    /\ Len(processedImages) < MaxWorkingSet
    /\ pendingAdds = <<>>                   \* nothing to await: no invocation is suspended
    /\ CommitApp(AddToSheet(AppState,
                            IF isRandomSize
                            THEN NewImage(clock, selectedSize, d[1], d[2])
                            ELSE NewImage(clock, selectedSize, 0, 0),
                            finalAction),
                 "handleAddToSheet")
    /\ UNCHANGED <<clock, pendingAdds, exportVars>>

\* handleAddToSheet up to await saveProcessedImage: the setProcessedImages
\* updater.
AddedToSheet(a, newImage) ==
    [a EXCEPT !.processedImages = Append(a.processedImages, newImage),
              !.sheetMode = IF Len(a.processedImages) = 0
                            THEN SheetModeOf(newImage)
                            ELSE a.sheetMode]

\* handleAddToSheet after the await.  closureQueue is imageQueue as the
\* render that created the callback saw it; setImageQueue(prev => prev.slice(1))
\* works on the queue as it is now.
AfterSave(a, closureQueue, finalAction) ==
    IF Len(closureQueue) > 0
    THEN [a EXCEPT !.imageQueue = IF a.imageQueue = <<>> THEN <<>>
                                  ELSE Tail(a.imageQueue),
                   !.uploadedImage = closureQueue[1],
                   !.step = "CROP"]
    ELSE [a EXCEPT !.step = IF finalAction = "print" THEN "PRINT" ELSE "UPLOAD",
                   !.uploadedImage = NoImage,
                   !.queueTotal = 0]

\* handleProcessClick with isStorageReady: handleAddToSheet runs up to
\* await saveProcessedImage and is suspended there; the cropper stays as it is.
handleProcessClickStored(finalAction, d) ==
    /\ CropperShown
    /\ isRandomSize \/ completedCrop
    /\ Len(processedImages) < MaxWorkingSet
    /\ Len(pendingAdds) < MaxPending
    /\ CommitApp(AddedToSheet(AppState,
                              IF isRandomSize
                              THEN NewImage(clock, selectedSize, d[1], d[2])
                              ELSE NewImage(clock, selectedSize, 0, 0)),
                 "handleAddToSheet")
    /\ pendingAdds' = Append(pendingAdds, [imageQueue |-> imageQueue,
                                           finalAction |-> finalAction])
    /\ UNCHANGED <<clock, exportVars>>

\* saveProcessedImage resolves or rejects: the oldest suspended
\* handleAddToSheet goes on behind its await.
SaveSettles ==
    /\ pendingAdds # <<>>
    /\ CommitApp(AfterSave(AppState, Head(pendingAdds).imageQueue,
                           Head(pendingAdds).finalAction),
                 "handleAddToSheet")
    /\ pendingAdds' = Tail(pendingAdds)
    /\ UNCHANGED <<clock, exportVars>>

\* Start Over, the cropper's back button, the Upload tab, a swipe back from Crop.
handleReset ==
    /\ step # "UPLOAD"
    /\ CommitApp(ClearedApp, "handleReset")
    /\ UNCHANGED <<clock, pendingAdds, exportVars>>

\* The Print tab, or a swipe forward from Crop.
NavigateToPrint ==
    /\ step # "PRINT"
    /\ Len(processedImages) > 0
    /\ CommitApp([AppState EXCEPT !.step = "PRINT"], "handleNavigate")
    /\ UNCHANGED <<clock, pendingAdds, exportVars>>

\* Back to Edit in PrintLayout, or a swipe back from Print: changeStep(Step.CROP).
BackToEdit ==
    /\ step = "PRINT"
    /\ CommitApp([AppState EXCEPT !.step = "CROP"], "onBack")
    /\ UNCHANGED <<clock, pendingAdds, exportVars>>

\* Time passes.
Tick ==
    /\ clock < MaxClock
    /\ clock' = clock + 1
    /\ UNCHANGED <<step, uploadedImage, processedImages, imageQueue, queueTotal, pendingAdds,
                   sheetMode, selectedSizeName, customSize, completedCrop, lastOp,
                   layoutVars, exportVars>>

AppInit ==
    /\ step = "UPLOAD"
    /\ uploadedImage = NoImage
    /\ processedImages = <<>>
    /\ imageQueue = <<>>
    /\ queueTotal = 0
    /\ pendingAdds = <<>>
    /\ sheetMode = NoMode
    /\ selectedSizeName = PASSPORT_SIZES[1].name
    /\ customSize = [width_mm |-> 0, height_mm |-> 0]
    /\ completedCrop = FALSE
    /\ clock = 0
    /\ lastOp = "none"
    /\ PrintLayoutMounted
    /\ exp = NoExport
    /\ brokenIds = {}
    /\ calc = NoCalc

AppNext ==
    \/ \E n \in 1..MaxBatch : handleImagesSelected(n)
    \/ \E name \in SizeNames : handleSizeChange(name)
    \/ \E d \in CropSizesMm : CompleteCrop(d)
    \/ \E fa \in {"print", "upload"}, d \in NaturalDims : handleProcessClick(fa, d)
    \/ \E fa \in {"print", "upload"}, d \in NaturalDims : handleProcessClickStored(fa, d)
    \/ SaveSettles
    \/ handleReset
    \/ NavigateToPrint
    \/ BackToEdit
    \/ Tick

SpecApp == AppInit /\ [][AppNext]_vars

(***************************************************************************)
(* Print/export pipeline                                                   *)
(***************************************************************************)
\* exp is the one pipeline run: pc is where it waits ("direct": on
\* renderSheetDirectlyToCanvas, "fallback": on renderSheetWithHtml2Canvas,
\* "idle": finished or never started); pages and pageNo are paginatedLayout
\* and currentPage as the handler's closure captured them; doc is the jsPDF
\* document, a sequence of pages, each the sequence of images embedded on it.

MemoryError ==
    [msg |-> "Failed to render page due to memory constraints. Try reducing image count or quality."]
ContextError == [msg |-> "Failed to get 2D context from canvas."]
LoadError(id) == [msg |-> "Failed to load image", id |-> id]
FallbackErrors ==
    { [msg |-> "Could not find #print-area element for capturing."],
      [msg |-> "html2canvas failed"] }

PrintAlert == "Error preparing file for printing."
ExportAlert ==
    "Export failed due to memory constraints. Try with fewer images or lower quality settings."

PageIds(page) == [k \in 1..Len(page) |-> page[k].id]
BrokenOn(page) == { page[k].id : k \in 1..Len(page) } \cap brokenIds

\* The canvas of renderSheetDirectlyToCanvas: every image of the page drawn.
DirectCanvas(pages, i) ==
    [page |-> i, drawn |-> PageIds(pages[i]), by |-> "direct"]

\* The canvas of html2canvas over PrintSheet: an <img> that does not load
\* shows nothing.
FallbackCanvas(pages, i) ==
    [page |-> i, drawn |-> SelectSeq(PageIds(pages[i]), LAMBDA id : id \notin brokenIds),
     by |-> "fallback"]

\* The errors renderSheetDirectlyToCanvas can throw on a page.
DirectErrors(page) == {ContextError} \cup { LoadError(id) : id \in BrokenOn(page) }

\* new jsPDF(): a document with one empty page.
NewPdf == << <<>> >>
\* if (i > 0) pdf.addPage()   (i counts from 1 here)
BeginPage_Always(doc, i) == Append(doc, <<>>)
BeginPage(doc, i) == IF i > 1 THEN Append(doc, <<>>) ELSE doc
\* pdf.addImage(...): onto the current (last) page
AddImage(doc, canvas) == [doc EXCEPT ![Len(doc)] = Append(@, canvas)]

\* The error renderPageToCanvas throws when the fallback threw fallbackError.
RenderPageError_Rethrow(fallbackError) == fallbackError
RenderPageError(fallbackError) == MemoryError

\* What the handler hands to the user: nothing when the pipeline threw.
Settle_KeepsPartial(kind, threw, doc, canvas) ==
    IF kind = "print" THEN [how |-> "opened", doc |-> doc]
    ELSE IF kind = "pdf" THEN [how |-> "saved", doc |-> doc]
    ELSE IF threw THEN NoOutput
    ELSE [how |-> "downloaded", canvas |-> canvas]
Settle(kind, threw, doc, canvas) ==
    IF threw THEN NoOutput
    ELSE IF kind = "print" THEN [how |-> "opened", doc |-> doc]
    ELSE IF kind = "pdf" THEN [how |-> "saved", doc |-> doc]
    ELSE [how |-> "downloaded", canvas |-> canvas]

\* renderPageToCanvas is entered for page i: the direct renderer is awaited.
EnterRender(e, i) ==
    [e EXCEPT !.pc = "direct", !.i = i,
              !.log = Append(e.log, <<"start", i>>),
              !.call = [direct |-> "pending", fallback |-> "none", error |-> NoError]]

\* handlePrint, handleExport("pdf"), handleExport("png") up to their first
\* await that waits for something.
StartExport(kind) ==
    /\ PrintLayoutShown
    /\ Len(imagesToPrint) > 0              \* the buttons are disabled otherwise
    /\ ~isExporting
    /\ exp.pc = "idle"
    /\ exp.overlap = 0
    /\ LET e0 == [NoExport EXCEPT !.kind = kind, !.pages = paginatedLayout,
                                  !.pageNo = currentPage]
           runs == IF kind = "png" THEN currentPage \in 1..Len(e0.pages)
                   ELSE Len(e0.pages) > 0
       IN  IF runs
           THEN /\ isExporting' = TRUE
                /\ exp' = IF kind = "png"
                          THEN EnterRender(e0, currentPage)
                          ELSE EnterRender([e0 EXCEPT !.doc = BeginPage(NewPdf, 1)], 1)
           ELSE /\ isExporting' = FALSE
                /\ exp' = e0
    /\ UNCHANGED <<appVars, lastOp, layoutVars, brokenIds, calc>>

\* renderPageToCanvas returned canvas: embed it and go on, or hand over.
Delivered(e, canvas) ==
    IF e.kind = "png"
    THEN /\ exp' = [e EXCEPT !.pc = "idle",
                             !.output = Settle("png", FALSE, e.doc, canvas)]
         /\ isExporting' = FALSE
    ELSE LET e1 == [e EXCEPT !.doc = AddImage(e.doc, canvas),
                             !.log = Append(e.log, <<"embed", e.i>>)]
         IN  IF e.i < Len(e.pages)
             THEN /\ exp' = EnterRender([e1 EXCEPT !.doc = BeginPage(e1.doc, e.i + 1)],
                                        e.i + 1)
                  /\ UNCHANGED isExporting
             ELSE /\ exp' = [e1 EXCEPT !.pc = "idle",
                                       !.output = Settle(e.kind, FALSE, e1.doc, canvas)]
                  /\ isExporting' = FALSE

\* renderSheetDirectlyToCanvas resolves: every image of the page loaded.
DirectResolves ==
    /\ exp.pc = "direct"
    /\ BrokenOn(exp.pages[exp.i]) = {}
    /\ Delivered([exp EXCEPT !.call.direct = "ok"], DirectCanvas(exp.pages, exp.i))
    /\ UNCHANGED <<appVars, lastOp, layoutVars, brokenIds, calc>>

\* renderSheetDirectlyToCanvas throws err: the fallback is awaited.
DirectThrows(err) ==
    /\ exp.pc = "direct"
    /\ err \in DirectErrors(exp.pages[exp.i])
    /\ exp' = [exp EXCEPT !.pc = "fallback",
                          !.call.direct = "threw",
                          !.call.fallback = "pending",
                          !.loadFailed = exp.loadFailed \/ err.msg = "Failed to load image"]
    /\ UNCHANGED <<appVars, lastOp, layoutVars, isExporting, brokenIds, calc>>

\* renderSheetWithHtml2Canvas resolves.
FallbackResolves ==
    /\ exp.pc = "fallback"
    /\ Delivered([exp EXCEPT !.call.fallback = "ok"], FallbackCanvas(exp.pages, exp.i))
    /\ UNCHANGED <<appVars, lastOp, layoutVars, brokenIds, calc>>

\* FallbackThrows without the finally block of the handler.
FallbackThrows_NoFinally(fallbackError) ==
    /\ exp.pc = "fallback"
    /\ exp' = [exp EXCEPT !.pc = "idle", !.call.fallback = "threw",
                          !.call.error = RenderPageError(fallbackError),
                          !.error = RenderPageError(fallbackError),
                          !.alert = IF exp.kind = "print" THEN PrintAlert
                                    ELSE ExportAlert,
                          !.output = Settle(exp.kind, TRUE, exp.doc, NoOutput)]
    /\ UNCHANGED <<appVars, lastOp, layoutVars, isExporting, brokenIds, calc>>

\* renderSheetWithHtml2Canvas throws: renderPageToCanvas throws, generatePdf
\* rejects, the handler alerts and clears isExporting.
FallbackThrows(fallbackError) ==
    /\ exp.pc = "fallback"
    /\ LET err == RenderPageError(fallbackError)
       IN  exp' = [exp EXCEPT !.pc = "idle",
                              !.call.fallback = "threw",
                              !.call.error = err,
                              !.error = err,
                              !.alert = IF exp.kind = "print" THEN PrintAlert
                                        ELSE ExportAlert,
                              !.output = Settle(exp.kind, TRUE, exp.doc, NoOutput)]
    /\ isExporting' = FALSE
    /\ UNCHANGED <<appVars, lastOp, layoutVars, brokenIds, calc>>

\* The component renders again with the isExporting = true that the running
\* handler set: from here on the handlers close over true and the buttons
\* are disabled.
Rerender ==
    /\ exp.pc # "idle"
    /\ ~exp.rerendered
    /\ exp' = [exp EXCEPT !.rerendered = TRUE]
    /\ UNCHANGED <<appVars, lastOp, layoutVars, isExporting, brokenIds, calc>>

\* handlePrint / handleExport invoked again from the render that started the
\* running pipeline: isExporting of that closure is false.  The guard is
\* passed, setIsExporting(true), and a further generatePdf /
\* renderPageToCanvas is awaited; with no page to render the handler falls
\* through to its finally.
RequestBeforeRerender(kind) ==
    /\ PrintLayoutShown
    /\ Len(imagesToPrint) > 0
    /\ exp.pc # "idle"
    /\ ~exp.rerendered
    /\ exp.overlap < MaxOverlap
    /\ LET runs == IF kind = "png" THEN currentPage \in 1..Len(paginatedLayout)
                   ELSE Len(paginatedLayout) > 0
       IN  IF runs
           THEN /\ isExporting' = TRUE
                /\ exp' = [exp EXCEPT !.overlap = exp.overlap + 1]
           ELSE /\ isExporting' = FALSE
                /\ UNCHANGED exp
    /\ UNCHANGED <<appVars, lastOp, layoutVars, brokenIds, calc>>

\* The render of a further pipeline resolves or rejects: its handler reaches
\* finally { setIsExporting(false) }.
OverlapSettles ==
    /\ exp.overlap > 0
    /\ exp' = [exp EXCEPT !.overlap = exp.overlap - 1]
    /\ isExporting' = FALSE
    /\ UNCHANGED <<appVars, lastOp, layoutVars, brokenIds, calc>>

\* A change of the layout renders the component: it is taken after Rerender.
RenderedSinceStart == exp.pc = "idle" \/ exp.rerendered

AllDirectErrors == {ContextError} \cup { LoadError(id) : id \in 1..MaxRandomImages }

\* Random-mode working sets of portrait images, some of whose data URLs do
\* not decode.
ExportInit ==
    /\ \E imgs \in { w \in RandomWorkingSets :
                        \A k \in 1..Len(w) : w[k].width_px = 1 } :
          /\ AtPrintStep(imgs, [mode |-> "random"])
          /\ brokenIds \in SUBSET ImageIds(imgs)
    /\ PrintLayoutMounted
    /\ exp = NoExport
    /\ calc = NoCalc

ExportNext ==
    \/ \E kind \in {"print", "pdf", "png"} : StartExport(kind)
    \/ DirectResolves
    \/ \E err \in AllDirectErrors : DirectThrows(err)
    \/ FallbackResolves
    \/ \E err \in FallbackErrors : FallbackThrows(err)
    \/ Rerender
    \/ \E kind \in {"print", "pdf", "png"} : RequestBeforeRerender(kind)
    \/ OverlapSettles
    \/ RenderedSinceStart /\ \E t \in {"a4", "custom"} : SetPaperType(t)
    \/ RenderedSinceStart /\ \E k \in {ScaleDen, 2 * ScaleDen} : SetRandomImageScale(k)
    \/ RenderedSinceStart /\ PrevPage
    \/ RenderedSinceStart /\ NextPage

SpecExport == ExportInit /\ [][ExportNext]_vars

(***************************************************************************)
(* Claims about the layout computations (SpecCalc)                         *)
(***************************************************************************)
\* Lengths of the configuration calc.in in exact arithmetic (units of 1/PxDen px)
CalcW == mmToPx(calc.in.paper.width - calc.in.margins.left - calc.in.margins.right)
CalcH == mmToPx(calc.in.paper.height - calc.in.margins.top - calc.in.margins.bottom)
CalcG == mmToPx(GapMm(calc.in.noGap))
CalcCellW == mmToPx(calc.in.size.width_mm)
             + 2 * CalcMarkPaddingPx(calc.in.showCutMarks, calc.in.noGap)
CalcCellH == mmToPx(calc.in.size.height_mm)
             + 2 * CalcMarkPaddingPx(calc.in.showCutMarks, calc.in.noGap)

\* C11: with a printable area > 0 that holds a cell on both axes, the
\* calculator's capacity for the photo as specified is cols * rows > 0 with
\* cols = floor((W + g) / (w + g)) and rows = floor((H + g) / (h + g)).
C11_CapacityFormula ==
    (calc.done /\ CalcW > 0 /\ CalcH > 0 /\ CalcCellW <= CalcW /\ CalcCellH <= CalcH) =>
        /\ calc.out.info.portrait =
              ((CalcW + CalcG) \div (CalcCellW + CalcG))
              * ((CalcH + CalcG) \div (CalcCellH + CalcG))
        /\ calc.out.info.portrait > 0

\* The scenario of C12 and C13: A4 portrait, 10 mm margins, photo 35 x 45 mm.
A4Scenario ==
    /\ calc.done
    /\ calc.in.paper = A4_DIMENSIONS_MM
    /\ calc.in.margins = DefaultMargins
    /\ calc.in.size = PASSPORT_SIZES[1]
    /\ ~calc.in.rotatePhotos

\* C12: A4, 10 mm margins, photo 35 x 45 mm, 2 mm gap, no cut marks: the
\* printable area is 190 x 277 mm, the portrait grid 5 x 5, and the capacity
\* of the sheet (maxPhotos = layoutInfo.max) 25.
C12_A4Scenario ==
    (A4Scenario /\ ~calc.in.noGap /\ ~calc.in.showCutMarks) =>
        /\ calc.in.paper.width - calc.in.margins.left - calc.in.margins.right = 190
        /\ calc.in.paper.height - calc.in.margins.top - calc.in.margins.bottom = 277
        /\ calc.out.grid = [cols |-> 5, rows |-> 5, itemsPerPage |-> 25]
        /\ calc.out.info.portrait = 25
        /\ calc.out.info.max = 25

\* C13: with noGap the gap and the cut-mark padding are 0 whatever
\* showCutMarks is, so the capacity does not depend on showCutMarks (A4
\* scenario: 5 x 6 = 30); without noGap the gap is 2 mm.
C13_NoGap ==
    calc.done =>
        /\ calc.in.noGap =>
              /\ calc.out.gapPx = FZero
              /\ calc.out.calcPadPx = FZero /\ calc.out.packPadPx = FZero
              /\ calc.out.info =
                    calculateLayoutInfo64(calc.in.paper.width, calc.in.paper.height,
                                          calc.in.size, calc.in.margins,
                                          ~calc.in.showCutMarks, TRUE)
              /\ A4Scenario =>
                    /\ calc.out.grid = [cols |-> 5, rows |-> 6, itemsPerPage |-> 30]
                    /\ calc.out.info.portrait = 30
                    /\ calc.out.info.max = 30
        /\ ~calc.in.noGap => calc.out.gapPx = mmToPx64(FOfInt(2))

C13_Witness == A4Scenario /\ calc.in.noGap /\ calc.in.showCutMarks

\* C15: mmToPx(mm) is the whole number round(mm / 25.4 * DPI).
C15_Rounded ==
    calc.done =>
        calc.out.widthPx =
            FOfInt((2 * calc.in.size.width_mm * DPI * 10 + 254) \div (2 * 254))

\* C19: the grid capacity of the standard-mode packer equals the calculator's
\* capacity for the same photo orientation.
C19_PackerAgreesWithCalculator ==
    calc.done =>
        calc.out.grid.itemsPerPage =
            IF calc.in.rotatePhotos THEN calc.out.info.landscape
            ELSE calc.out.info.portrait

(***************************************************************************)
(* Claims about the working set (SpecApp)                                  *)
(***************************************************************************)
\* C3: in standard mode all images of the working set have the same size
\* (name, width_mm, height_mm).
C3_StandardSameSize ==
    sheetMode.mode = "standard" =>
        \A i, j \in 1..Len(processedImages) :
            processedImages[i].size = processedImages[j].size

\* C18: the images of the working set have pairwise distinct ids.
C18_DistinctIds ==
    \A i, j \in 1..Len(processedImages) :
        i # j => processedImages[i].id # processedImages[j].id

\* A step of handleAddToSheet that shows another image in the cropper, and one
\* that changes the queue.
AddPresents ==
    /\ lastOp' = "handleAddToSheet"
    /\ step' = "CROP" /\ uploadedImage' # NoImage
    /\ step # "CROP" \/ uploadedImage' # uploadedImage
AddConsumes == lastOp' = "handleAddToSheet" /\ imageQueue' # imageQueue

C24_SheetModeLifecycle ==
    /\ (sheetMode = NoMode <=> processedImages = <<>>)
    /\ [][ /\ (sheetMode' = NoMode <=> processedImages' = <<>>)
           /\ (processedImages = <<>> /\ processedImages' # <<>>)
                 => sheetMode' = SheetModeOf(processedImages'[1])
           /\ (processedImages # <<>> /\ processedImages' # <<>>)
                 => sheetMode' = sheetMode ]_vars

\* A later add of an image of another size left the mode as the first image
\* decided it.
C24_Witness ==
    /\ Len(processedImages) >= 2
    /\ sheetMode = SheetModeOf(processedImages[1])
    /\ sheetMode # SheetModeOf(processedImages[2])

\* C4: the working set loses images only through an explicit reset.
C4_LosesOnlyOnReset ==
    [][ Len(processedImages') < Len(processedImages) => lastOp' = "handleReset" ]_vars

(***************************************************************************)
(* Claims about the print/export pipeline (SpecExport)                     *)
(***************************************************************************)
ExportFinished == exp.pc = "idle" /\ exp.kind # "none"
PdfRun == exp.kind \in {"print", "pdf"}

\* C6: an export during which an image failed to load ends without output
\* and with an error that names the load failure.
C6_LoadFailureFailsExport ==
    (ExportFinished /\ exp.loadFailed) =>
        /\ exp.output = NoOutput
        /\ exp.error.msg = "Failed to load image"

\* C8: a PDF run (Print or Export PDF) in which rendering threw hands over
\* no document, whatever pages were embedded before the failure.
C8_NoPartialPdf ==
    (ExportFinished /\ PdfRun /\ exp.error # NoError) => exp.output = NoOutput

\* Rendering threw on page 3 of 3 after pages 1 and 2 were embedded.
C8_Witness ==
    /\ ExportFinished /\ exp.kind = "pdf" /\ exp.error # NoError
    /\ exp.i = 3 /\ Len(exp.pages) = 3
    /\ Len(exp.doc) = 3 /\ Len(exp.doc[1]) = 1 /\ Len(exp.doc[2]) = 1
    /\ exp.output = NoOutput

\* C9: a PDF run starts and embeds the pages alternately in page order
\* (start 1, embed 1, start 2, embed 2, ...), and the document handed over
\* has one page per Page carrying that Page's raster, in order.
C9_PagesInOrder ==
    PdfRun =>
        /\ \A k \in 1..Len(exp.log) :
              exp.log[k] = << IF k % 2 = 1 THEN "start" ELSE "embed", (k + 1) \div 2 >>
        /\ exp.output # NoOutput =>
              /\ Len(exp.output.doc) = Len(exp.pages)
              /\ \A k \in 1..Len(exp.pages) :
                    /\ Len(exp.output.doc[k]) = 1
                    /\ exp.output.doc[k][1].page = k

\* A three-page document was saved.
C9_Witness ==
    /\ ExportFinished /\ exp.kind = "pdf" /\ exp.output # NoOutput
    /\ Len(exp.pages) = 3 /\ Len(exp.log) = 6

\* C10: in a renderPageToCanvas call the fallback runs iff the direct
\* renderer threw; the call throws iff both threw, and then the memory error.
C10_FallbackIffDirectThrows ==
    /\ (exp.call.fallback # "none") <=> (exp.call.direct = "threw")
    /\ (exp.call.error # NoError) <=>
          (exp.call.direct = "threw" /\ exp.call.fallback = "threw")
    /\ exp.call.error # NoError => exp.call.error = MemoryError

\* Both renderers threw.
C10_Witness ==
    /\ exp.call.direct = "threw" /\ exp.call.fallback = "threw"
    /\ exp.call.error = MemoryError

\* The alert texts that suggest what to do (fewer images, lower quality)
ActionableAlerts == {ExportAlert}

\* C17: every run in which rendering threw ends with an alert that carries an
\* actionable suggestion.
C17_FailureReported ==
    (ExportFinished /\ exp.error # NoError) => exp.alert \in ActionableAlerts

\* Print/export pipelines whose render has started and not yet settled.
PipelinesInProgress == (IF exp.pc # "idle" THEN 1 ELSE 0) + exp.overlap

AttemptEnds ==
    \/ exp.pc # "idle" /\ exp'.pc = "idle"
    \/ exp.pc = "idle" /\ exp'.pc = "idle" /\ exp' # exp
    \/ exp'.overlap < exp.overlap

\* C27: every print/export attempt whose render resolves or rejects, or that
\* finds nothing to render, ends with isExporting = false; isExporting is
\* true only while a pipeline is running.
C27_ExportingCleared ==
    /\ [](isExporting => PipelinesInProgress > 0)
    /\ [][AttemptEnds => ~isExporting']_vars

C27_Witness ==
    /\ exp.pc = "idle" /\ exp.call.fallback = "threw"
    /\ exp.alert # "none"
    /\ ~isExporting

(***************************************************************************)
(* Claims about the standard-mode layout (SpecLayout)                      *)
(***************************************************************************)
RECURSIVE CountPlaced(_)
CountPlaced(pages) ==
    IF pages = <<>> THEN 0 ELSE Len(Head(pages)) + CountPlaced(Tail(pages))

StandardShown == PrintLayoutShown /\ ~isRandomSizeMode

\* C1: in standard mode the number of instances the packer places equals
\* min(sum of the quantities, layoutInfo.max), so that every instance accepted
\* into the quantity map is on the sheet.
C1_PackingCoverage ==
    StandardShown =>
        CountPlaced(paginatedLayout) = Min(totalCount, maxPhotos)

\* C2: in standard mode, once the effects have run, the quantities sum to at
\* most maxPhotos and each of them is a non-negative integer.
C2_QuantityInvariant ==
    StandardShown =>
        /\ totalCount <= maxPhotos
        /\ \A id \in DOMAIN quantities : quantities[id] \in Nat

\* C2 witness: the user has moved a slider away from the even distribution
\* and the sheet is full, so a further increase has to be clamped.
C2_Witness ==
    /\ StandardShown
    /\ maxPhotos > 0
    /\ Len(images) = 2
    /\ quantities # EvenQuantities(images, maxPhotos)
    /\ totalCount = maxPhotos

printableWidthPx == mmToPx(paperDimensions.width - margins.left - margins.right)
printableHeightPx == mmToPx(paperDimensions.height - margins.top - margins.bottom)

\* The grid of the standard branch for the state as rendered
StandardGridShown ==
    StandardGrid(passportSize, printableWidthPx, printableHeightPx,
                 mmToPx(GapMm(noGap)), showCutMarks, noGap, rotatePhotos)

\* C14: when the margins leave a printable width or height <= 0, the
\* calculator's capacity is 0 for both orientations, the packer's page list is
\* empty and the quantities sum to 0.
C14_NonPositiveArea ==
    (StandardShown /\ (printableWidthPx <= 0 \/ printableHeightPx <= 0)) =>
        /\ layoutInfo.portrait = 0 /\ layoutInfo.landscape = 0 /\ maxPhotos = 0
        /\ paginatedLayout = <<>>
        /\ totalCount = 0

C14_Witness ==
    /\ StandardShown
    /\ paperDimensions.width = A4_DIMENSIONS_MM.width
    /\ margins.left = 110 /\ margins.right = 110

\* C16: in standard mode the packer returns at most one page: exactly one
\* when an instance is placed, none otherwise.
C16_AtMostOnePage ==
    StandardShown =>
        /\ pageCount <= 1
        /\ pageCount = 1 <=> CountPlaced(paginatedLayout) > 0

\* More instances accepted than the grid holds, and still one page.
C16_Witness ==
    /\ StandardShown
    /\ pageCount = 1
    /\ totalCount > StandardGridShown.itemsPerPage

C23_PhotoWithinCell ==
    StandardShown =>
        \A p \in 1..pageCount : \A k \in 1..Len(paginatedLayout[p]) :
            LET it == paginatedLayout[p][k]
                d == DrawnRect(it, margins, showCutMarks, noGap)
                pad == PackMarkPaddingPx(showCutMarks, noGap)
            IN  /\ d.x = 2 * (mmToPx(margins.left) + it.x + pad)
                /\ d.y = 2 * (mmToPx(margins.top) + it.y + pad)
                /\ d.w = 2 * (it.renderWidth - 2 * pad)
                /\ d.h = 2 * (it.renderHeight - 2 * pad)

\* C29: handleRotateImage flips the rotation of the image with the given id
\* and leaves the other images, the order of the images and the quantities
\* as they were.
C29_RotateFrame ==
    [][ (StandardShown /\ processedImages' # processedImages) =>
            /\ \E id \in ImageIds(images) :
                  processedImages' =
                     [i \in 1..Len(images) |->
                         IF images[i].id = id
                         THEN [images[i] EXCEPT !.rotation = 90 - @]
                         ELSE images[i]]
            /\ quantities' = quantities ]_vars

\* Capacity of the sheet in orientation po with the photos rotated (rp) or
\* not, as calculateLayoutInfo counts it.
FillCapacity(po, rp) ==
    LET info == LayoutInfoOf(images, paperType, customPaperSize, po, margins,
                             showCutMarks, noGap)
    IN  IF rp THEN info.landscape ELSE info.portrait

BestFillCapacity ==
    Max(Max(FillCapacity("portrait", FALSE), FillCapacity("portrait", TRUE)),
        Max(FillCapacity("landscape", FALSE), FillCapacity("landscape", TRUE)))

\* quantities[id] || 0
QuantityIn(q, id) == IF id \in DOMAIN q THEN q[id] ELSE 0

\* C30: after Optimize & Fill Page the orientation and the photo rotation are
\* the combination of largest capacity over both orientations and both
\* rotations, portrait and unrotated on ties; the quantities sum to that
\* capacity; the quantity of an image is that of any later image or one more.
C30_FillPage ==
    [][ handleFillPage =>
            /\ FillCapacity(paperOrientation', rotatePhotos') = BestFillCapacity
            /\ paperOrientation' = "landscape" =>
                  Max(FillCapacity("portrait", FALSE), FillCapacity("portrait", TRUE))
                     < BestFillCapacity
            /\ rotatePhotos' =>
                  FillCapacity(paperOrientation', FALSE) < BestFillCapacity
            /\ TotalCountOf(quantities') = BestFillCapacity
            /\ \A i \in 1..Len(images) : \A j \in (i + 1)..Len(images) :
                  QuantityIn(quantities', images[i].id)
                  - QuantityIn(quantities', images[j].id) \in {0, 1} ]_vars

\* Filled in landscape with the photos rotated, two images, an odd capacity:
\* the first image has one instance more than the second.
C30_Witness ==
    /\ StandardShown /\ Len(images) = 2
    /\ rotatePhotos
    /\ BestFillCapacity > 0
    /\ FillCapacity(paperOrientation, rotatePhotos) = BestFillCapacity
    /\ TotalCountOf(quantities) = BestFillCapacity
    /\ QuantityIn(quantities, images[1].id) = QuantityIn(quantities, images[2].id) + 1

(***************************************************************************)
(* Claims about the random-mode layout (SpecRandom)                        *)
(***************************************************************************)
RandomShown == PrintLayoutShown /\ isRandomSizeMode

\* The image a positioned instance was made from
PlacedImage(item) ==
    [id |-> item.id, size |-> item.size, rotation |-> item.rotation,
     width_px |-> item.width_px, height_px |-> item.height_px]

\* The images of all pages, in page order and in placement order on a page
RECURSIVE PlacedImages(_)
PlacedImages(pages) ==
    IF pages = <<>> THEN <<>>
    ELSE [k \in 1..Len(Head(pages)) |-> PlacedImage(Head(pages)[k])]
         \o PlacedImages(Tail(pages))

\* C20: in random mode with a printable area > 0, the pages taken together,
\* in order, are the input list: no image reordered, dropped or duplicated.
C20_RandomKeepsOrder ==
    (RandomShown /\ printableWidthPx > 0 /\ printableHeightPx > 0) =>
        PlacedImages(paginatedLayout) = images

\* Three images over more than one page.
C20_Witness ==
    /\ RandomShown /\ printableWidthPx > 0 /\ printableHeightPx > 0
    /\ Len(images) = 3
    /\ pageCount >= 2
    /\ PlacedImages(paginatedLayout) = images

\* Bottom edge of the lowest item when the rows are laid out on one endless
\* page: the cumulative row height of the images.
CumulativeRowHeight ==
    LET unbroken ==
            PackRandom([pages |-> << <<>> >>, cx |-> 0, cy |-> 0, rowHeight |-> 0],
                       imagesToPrint, 1,
                       TargetHeightPx(printableHeightPx, randomImageScale),
                       printableWidthPx, mmToPx(10000), mmToPx(GapMm(noGap))).pages[1]
    IN  IF Len(unbroken) = 0 THEN 0
        ELSE LET low == CHOOSE i \in 1..Len(unbroken) :
                          \A j \in 1..Len(unbroken) :
                             unbroken[j].y + unbroken[j].renderHeight
                                <= unbroken[i].y + unbroken[i].renderHeight
             IN  unbroken[low].y + unbroken[low].renderHeight

\* C5: in random mode, a cumulative row height above the printable height
\* gives a second page, and every placed item ends within the printable
\* height of its page.
C5_RandomPagesFit ==
    (RandomShown /\ printableWidthPx > 0 /\ printableHeightPx > 0) =>
        /\ CumulativeRowHeight > printableHeightPx => pageCount >= 2
        /\ \A p \in 1..pageCount : \A k \in 1..Len(paginatedLayout[p]) :
              paginatedLayout[p][k].y + paginatedLayout[p][k].renderHeight
                 <= printableHeightPx

\* Every placed instance is wider than half the printable width.
AllWiderThanHalf ==
    \A p \in 1..pageCount : \A k \in 1..Len(paginatedLayout[p]) :
        2 * paginatedLayout[p][k].renderWidth > printableWidthPx

\* C21: in random mode, when every footprint is wider than half the printable
\* width, each row holds one image: the first image of a page is at (0, 0)
\* and every later one at x = 0, one row height plus the gap below the one
\* before it.
C21_OnePerRow ==
    (RandomShown /\ printableWidthPx > 0 /\ printableHeightPx > 0 /\ AllWiderThanHalf) =>
        \A p \in 1..pageCount :
            /\ paginatedLayout[p][1].x = 0 /\ paginatedLayout[p][1].y = 0
            /\ \A k \in 2..Len(paginatedLayout[p]) :
                  /\ paginatedLayout[p][k].x = 0
                  /\ paginatedLayout[p][k].y =
                        paginatedLayout[p][k - 1].y
                        + paginatedLayout[p][k - 1].renderHeight
                        + mmToPx(GapMm(noGap))

\* Two wide images below one another on one page.
C21_Witness ==
    /\ RandomShown /\ printableWidthPx > 0 /\ printableHeightPx > 0
    /\ AllWiderThanHalf
    /\ \E p \in 1..pageCount :
          /\ Len(paginatedLayout[p]) >= 2
          /\ paginatedLayout[p][2].x = 0
          /\ paginatedLayout[p][2].y > 0

\* C28: in random mode no two instances on one page overlap: two instances
\* of one row are at least the gap apart horizontally, two instances of
\* different rows at least the gap apart vertically.
C28_NoOverlap ==
    (RandomShown /\ printableWidthPx > 0 /\ printableHeightPx > 0) =>
        \A p \in 1..pageCount :
            \A i \in 1..Len(paginatedLayout[p]) : \A j \in (i + 1)..Len(paginatedLayout[p]) :
                IF paginatedLayout[p][i].y = paginatedLayout[p][j].y
                THEN paginatedLayout[p][j].x >=
                         paginatedLayout[p][i].x + paginatedLayout[p][i].renderWidth
                         + mmToPx(GapMm(noGap))
                ELSE paginatedLayout[p][j].y >=
                         paginatedLayout[p][i].y + paginatedLayout[p][i].renderHeight
                         + mmToPx(GapMm(noGap))

\* A page with two instances side by side and a third in the next row.
C28_Witness ==
    /\ RandomShown /\ printableWidthPx > 0 /\ printableHeightPx > 0
    /\ \E p \in 1..pageCount :
          /\ Len(paginatedLayout[p]) = 3
          /\ paginatedLayout[p][2].y = paginatedLayout[p][1].y
          /\ paginatedLayout[p][2].x > 0
          /\ paginatedLayout[p][3].y > paginatedLayout[p][1].y

\* C7: after every handler and its effects currentPage lies in 1..pageCount
\* (1 when there is no page); a recomputation that leaves fewer pages than
\* currentPage moves currentPage to the new page count, and to 1 when no page
\* is left.
C7_PageNavigation ==
    [][ PrintLayoutShown =>
          /\ PageCountNext > 0 => currentPage' \in 1..PageCountNext
          /\ (PageCountNext > 0 /\ PageCountNext < currentPage)
                 => currentPage' = PageCountNext
          /\ PageCountNext = 0 => currentPage' = 1 ]_vars

\* C7 witness: the page count shrank below the page being viewed and the
\* effect moved currentPage down to the last page, which is not the first.
C7_Witness ==
    /\ RandomShown
    /\ pageEffect = "snap"
    /\ pageCount >= 2
    /\ currentPage = pageCount

====
